---- MODULE Spec2Model ----
(***************************************************************************)
(* Model of the Velocity Strip-Search backend (src/index.js, latest        *)
(* revision, lines 1680-2972): the rule engine analyzeScanResults with its *)
(* helpers extractYear and calculateDaysSinceBackup, the letter grade, and *)
(* the POST /scan-results handler that drives them.                        *)
(*                                                                         *)
(* JavaScript values are modelled as follows.                              *)
(*   - A field of the request body is a record [st, v]: st is "undefined"  *)
(*     (the key is absent), "null" (JSON null) or "val" (v is the value).  *)
(*   - Strings are TLA+ strings; includes, match, toUpperCase, parseInt    *)
(*     are computed on their characters.                                   *)
(*   - A JS number that may be NaN or null is a record [nan, val].          *)
(*   - Time is counted in hours; a timestamp is the number of hours since  *)
(*     2026-01-01T00:00:00Z.                                               *)
(***************************************************************************)
EXTENDS Integers, Sequences, FiniteSets, TLC

(***************************************************************************)
(* Bounds of the model                                                     *)
(***************************************************************************)
\* a request body differs from one of the base records in at most this
\* many fields
MaxOverrides == 1

(***************************************************************************)
(* String primitives                                                       *)
(***************************************************************************)
CharAt(s, i) == SubSeq(s, i, i)

\* String.prototype.includes
includes(s, t) ==
    \E i \in 1..(Len(s) - Len(t) + 1) : SubSeq(s, i, i + Len(t) - 1) = t

DigitChars == "0123456789"
UpperChars == "ABCDEFGHIJKLMNOPQRSTUVWXYZ"
LowerChars == "abcdefghijklmnopqrstuvwxyz"

IsDigit(c) == \E d \in 1..10 : CharAt(DigitChars, d) = c
DigitVal(c) == (CHOOSE d \in 1..10 : CharAt(DigitChars, d) = c) - 1

RECURSIVE MapChars(_, _, _)
\* replaces every character of s found in from by the character of to at
\* the same position
MapChars(s, from, to) ==
    IF s = "" THEN ""
    ELSE LET c == CharAt(s, 1)
             r == MapChars(SubSeq(s, 2, Len(s)), from, to)
         IN  IF \E k \in 1..Len(from) : CharAt(from, k) = c
             THEN CharAt(to, CHOOSE k \in 1..Len(from) : CharAt(from, k) = c) \o r
             ELSE c \o r

toUpperCase(s) == MapChars(s, LowerChars, UpperChars)
toLowerCase(s) == MapChars(s, UpperChars, LowerChars)

RECURSIVE DigitsValue(_, _)
\* value of the decimal digit string s, accumulated onto acc
DigitsValue(s, acc) ==
    IF s = "" THEN acc
    ELSE DigitsValue(SubSeq(s, 2, Len(s)), 10 * acc + DigitVal(CharAt(s, 1)))

RECURSIVE LeadingDigits(_)
LeadingDigits(s) ==
    IF s = "" \/ ~IsDigit(CharAt(s, 1)) THEN ""
    ELSE CharAt(s, 1) \o LeadingDigits(SubSeq(s, 2, Len(s)))

(***************************************************************************)
(* JS numbers that may be NaN, and values that may be null                 *)
(***************************************************************************)
NaN == [nan |-> TRUE, val |-> 0]
Num(n) == [nan |-> FALSE, val |-> n]

\* comparisons with NaN are false
NumGt(x, n) == ~x.nan /\ x.val > n
NumLe(x, n) == ~x.nan /\ x.val <= n

\* parseInt on a string that starts with a digit or is not numeric
parseInt(s) ==
    IF LeadingDigits(s) = "" THEN NaN ELSE Num(DigitsValue(LeadingDigits(s), 0))

(***************************************************************************)
(* Request body fields                                                     *)
(***************************************************************************)
Undef(dflt) == [st |-> "undefined", v |-> dflt]
Null(dflt) == [st |-> "null", v |-> dflt]
Val(x) == [st |-> "val", v |-> x]

NoStr == Undef("")
NoNum == Undef(0)
NoBool == Undef(FALSE)

\* JS truthiness of a string, number or boolean field
TruthyStr(f) == f.st = "val" /\ f.v # ""
TruthyNum(f) == f.st = "val" /\ f.v # 0
\* f !== undefined
Defined(f) == f.st # "undefined"
\* numeric coercion used by the relational operators: null -> 0
ToNum(f) == IF f.st = "val" THEN f.v ELSE 0
\* f === false
IsFalse(f) == f.st = "val" /\ f.v = FALSE
\* (f || dflt) for a string field
StrOr(f, dflt) == IF TruthyStr(f) THEN f.v ELSE dflt
\* (f || dflt) for a number field
NumOr(f, dflt) == IF TruthyNum(f) THEN f.v ELSE dflt

(***************************************************************************)
(* Dates.  new Date(s) is modelled for the ISO form                         *)
(* "2026-MM-DDTHH:00:00Z"; every other string is an Invalid Date, whose     *)
(* time value is NaN.                                                       *)
(***************************************************************************)
HoursPerDay == 24

\* days of 2026 that precede the first day of each month
DaysBeforeMonth == <<0, 31, 59, 90, 120, 151, 181, 212, 243, 273, 304, 334, 365>>

TwoDigits(s, i) == DigitsValue(SubSeq(s, i, i + 1), 0)

DateParse(s) ==
    IF /\ Len(s) = 20
       /\ SubSeq(s, 1, 5) = "2026-"
       /\ IsDigit(CharAt(s, 6)) /\ IsDigit(CharAt(s, 7))
       /\ CharAt(s, 8) = "-"
       /\ IsDigit(CharAt(s, 9)) /\ IsDigit(CharAt(s, 10))
       /\ CharAt(s, 11) = "T"
       /\ IsDigit(CharAt(s, 12)) /\ IsDigit(CharAt(s, 13))
       /\ SubSeq(s, 14, 20) = ":00:00Z"
       /\ TwoDigits(s, 6) \in 1..12
       /\ TwoDigits(s, 9) >= 1
       /\ TwoDigits(s, 9) <= DaysBeforeMonth[TwoDigits(s, 6) + 1]
                               - DaysBeforeMonth[TwoDigits(s, 6)]
       /\ TwoDigits(s, 12) \in 0..23
    THEN Num((DaysBeforeMonth[TwoDigits(s, 6)] + TwoDigits(s, 9) - 1) * HoursPerDay
             + TwoDigits(s, 12))
    ELSE NaN

\* new Date() at the time of the request
NowString == "2026-11-04T00:00:00Z"
Now == DateParse(NowString).val

Abs(n) == IF n < 0 THEN 0 - n ELSE n
\* Math.ceil(n / d) for n >= 0
CeilDiv(n, d) == (n + d - 1) \div d

\* new Date(s) never throws, so the catch branch is unreachable: an
\* unparseable string yields NaN through Math.abs and Math.ceil
calculateDaysSinceBackup(backupDate) ==
    LET backup == DateParse(backupDate)
    IN  IF backup.nan THEN NaN
        ELSE Num(CeilDiv(Abs(Now - backup.val), HoursPerDay))

(***************************************************************************)
(* extractYear                                                              *)
(***************************************************************************)
NullYear == [isNull |-> TRUE, val |-> 0]
Year(y) == [isNull |-> FALSE, val |-> y]

\* positions where /20\d{2}/ matches
YearMatches(s) ==
    {i \in 1..(Len(s) - 3) : /\ SubSeq(s, i, i + 1) = "20"
                             /\ IsDigit(CharAt(s, i + 2))
                             /\ IsDigit(CharAt(s, i + 3))}

Min(S) == CHOOSE x \in S : \A y \in S : x <= y

\* the model number -> year chain, in source order
ModelYearTable ==
    << <<"MacBookPro18", 2021>>, <<"MacBookPro17", 2020>>, <<"MacBookPro16", 2019>>,
       <<"MacBookPro15", 2018>>, <<"MacBookPro14", 2017>>, <<"MacBookPro13", 2016>>,
       <<"MacBookPro12", 2015>>, <<"MacBookPro11", 2014>>, <<"MacBookPro10", 2013>>,
       <<"MacBookPro9", 2012>>, <<"MacBookPro8", 2011>>,
       <<"MacBookAir10", 2020>>, <<"MacBookAir9", 2020>>, <<"MacBookAir8", 2018>>,
       <<"MacBookAir7", 2015>>, <<"MacBookAir6", 2013>>, <<"MacBookAir5", 2012>>,
       <<"MacBook10", 2017>>, <<"MacBook9", 2016>>, <<"MacBook8", 2015>>,
       <<"iMac21", 2021>>, <<"iMac20", 2020>>, <<"iMac19", 2019>>, <<"iMac18", 2017>>,
       <<"iMac17", 2015>>, <<"iMac16", 2015>>, <<"iMac15", 2014>>, <<"iMac14", 2013>>,
       <<"iMac13", 2012>>,
       <<"Macmini9", 2020>>, <<"Macmini8", 2018>>, <<"Macmini7", 2014>>,
       <<"Macmini6", 2012>>,
       <<"MacPro7", 2019>>, <<"MacPro6", 2013>>,
       <<"MacStudio", 2022>> >>

\* extractYear with the table consulted before the explicit year
extractYear_TableFirst(macModel) ==
    IF macModel = "" THEN NullYear
    ELSE LET hits == {k \in 1..Len(ModelYearTable) :
                         includes(macModel, ModelYearTable[k][1])}
         IN  IF hits # {} THEN Year(ModelYearTable[Min(hits)][2])
             ELSE IF YearMatches(macModel) # {}
             THEN Year(DigitsValue(SubSeq(macModel, Min(YearMatches(macModel)),
                                          Min(YearMatches(macModel)) + 3), 0))
             ELSE NullYear

\* macModel is a JS string; '' is falsy
extractYear(macModel) ==
    IF macModel = "" THEN NullYear
    ELSE IF YearMatches(macModel) # {}
    THEN Year(DigitsValue(SubSeq(macModel, Min(YearMatches(macModel)),
                                 Min(YearMatches(macModel)) + 3), 0))
    ELSE LET hits == {k \in 1..Len(ModelYearTable) :
                         includes(macModel, ModelYearTable[k][1])}
         IN  IF hits = {} THEN NullYear ELSE Year(ModelYearTable[Min(hits)][2])

\* (modelYear && modelYear <= n)
YearAtMost(y, n) == ~y.isNull /\ y.val # 0 /\ y.val <= n

(***************************************************************************)
(* Flags and rule results                                                   *)
(***************************************************************************)
\* upsell: null
NoUpsell == "null"

\* A flag as pushed by a rule.  rule is not a field of the JS object: it
\* records which block of analyzeScanResults pushed the flag, by the
\* position of the block in the function (see Blocks).  The
\* interpolated texts (clientFacing, issue) are not modelled.
Flag(rule, severity, category, recommendation, upsell, value) ==
    [rule |-> rule, severity |-> severity, category |-> category,
     recommendation |-> recommendation, upsell |-> upsell, value |-> value]

\* what one block of analyzeScanResults does: the flags it pushes, what it
\* adds to priorityScore and to totalOpportunity, and whether it throws
Outcome(flags, score, opp) ==
    [threw |-> FALSE, flags |-> flags, score |-> score, opp |-> opp]
Nothing == Outcome(<<>>, 0, 0)
Throws == [threw |-> TRUE, flags |-> <<>>, score |-> 0, opp |-> 0]

SolderedFamilies ==
    {"MacBookPro11", "MacBookPro12", "MacBook8", "MacBook9", "MacBook10", "MacBookAir"}

\* the chain of macModel.includes(...) tests; macModel is a string
InSolderedFamily(macModel) == \E t \in SolderedFamilies : includes(macModel, t)

\* isSoldered of the RAM capacity and RAM speed blocks, for a string macModel
isSoldered(macModel) ==
    \/ InSolderedFamily(macModel)
    \/ YearAtMost(extractYear(macModel), 2015)

\* data.macModel.includes(...) on a macModel that is undefined or null
\* raises a TypeError
MacModelDerefThrows(data) == data.macModel.st # "val"

(***************************************************************************)
(* The blocks of analyzeScanResults, in source order                        *)
(***************************************************************************)
\* RuleSystemAge without the component flags: one age flag of weight 4,
\* and the soldered-memory note
RuleSystemAge_SingleAgeFlag(data) ==
    IF TruthyStr(data.macModel) /\ TruthyStr(data.cpuBrand)
    THEN LET modelYear == extractYear(data.macModel.v)
         IN  IF YearAtMost(modelYear, 2015)
             THEN LET age == <<Flag(1, "CRITICAL", "Hardware Age",
                                    "Replacement strongly recommended",
                                    "New Mac consultation", 0)>>
                  IN  IF InSolderedFamily(data.macModel.v)
                      THEN Outcome(Append(age,
                                     Flag(1, "CRITICAL", "Memory",
                                          "System replacement required for more RAM",
                                          "New Mac consultation", 0)),
                                   4 + 2, 0)
                      ELSE Outcome(age, 4, 0)
             ELSE IF YearAtMost(modelYear, 2017)
             THEN Outcome(<<Flag(1, "MODERATE", "Hardware Age",
                                 "Plan for replacement within 1-2 years",
                                 "Upgrade consultation", 0)>>, 2, 0)
             ELSE Nothing
    ELSE Nothing

\* RuleSystemAge as in the earlier revision: one flag, no component flags
\* and no soldered-memory note
RuleSystemAge_NoSolderedNote(data) ==
    IF TruthyStr(data.macModel) /\ TruthyStr(data.cpuBrand)
    THEN LET modelYear == extractYear(data.macModel.v)
         IN  IF YearAtMost(modelYear, 2015)
             THEN Outcome(<<Flag(1, "CRITICAL", "Hardware Age",
                                 "Replacement strongly recommended",
                                 "New Mac consultation", 0)>>, 4, 0)
             ELSE IF YearAtMost(modelYear, 2017)
             THEN Outcome(<<Flag(1, "MODERATE", "Hardware Age",
                                 "Plan for replacement within 1-2 years",
                                 "Upgrade consultation", 0)>>, 2, 0)
             ELSE Nothing
    ELSE Nothing

RuleSystemAge(data) ==
    IF TruthyStr(data.macModel) /\ TruthyStr(data.cpuBrand)
    THEN LET modelYear == extractYear(data.macModel.v)
         IN  IF YearAtMost(modelYear, 2015)
             THEN LET age == <<Flag(1, "CRITICAL", "Hardware Age",
                                    "Replacement strongly recommended",
                                    "New Mac consultation", 0),
                               Flag(1, "CRITICAL", "Hardware Age",
                                    "Replacement required for AI workloads",
                                    NoUpsell, 0),
                               Flag(1, "CRITICAL", "Hardware Age",
                                    "External GPU or system replacement",
                                    NoUpsell, 0)>>
                  IN  IF InSolderedFamily(data.macModel.v)
                      THEN Outcome(Append(age,
                                     Flag(1, "CRITICAL", "Memory",
                                          "System replacement required for more RAM",
                                          "New Mac consultation", 0)),
                                   4 + 2 + 2 + 2, 0)
                      ELSE Outcome(age, 4 + 2 + 2, 0)
             ELSE IF YearAtMost(modelYear, 2017)
             THEN Outcome(<<Flag(1, "MODERATE", "Hardware Age",
                                 "Plan for replacement within 1-2 years",
                                 "Upgrade consultation", 0)>>, 2, 0)
             ELSE Nothing
    ELSE Nothing

RuleBattery(data) ==
    IF TruthyNum(data.batteryCapacity) /\ data.batteryCapacity.v < 100
    THEN LET capacity == data.batteryCapacity.v
             cycles == NumOr(data.batteryCycles, 0)
         IN  IF capacity < 70 \/ cycles > 1200
             THEN Outcome(<<Flag(2, "CRITICAL", "Battery",
                                 "Battery replacement recommended",
                                 "Battery replacement ($249)", 249)>>, 3, 249)
             ELSE IF capacity < 85 \/ cycles > 800
             THEN Outcome(<<Flag(2, "MODERATE", "Battery",
                                 "Battery showing wear - monitor closely",
                                 "Battery replacement ($249)", 249)>>, 2, 249)
             ELSE Nothing
    ELSE Nothing

\* RuleBackup with the "no backup" test hoisted out of the presence guard:
\* an absent lastBackupDate counts as "Never"
RuleBackup_AbsentIsNever(data) ==
    IF ~TruthyStr(data.lastBackupDate) \/ data.lastBackupDate.v \in {"Never", "Unknown"}
    THEN Outcome(<<Flag(3, "CRITICAL", "Data Protection",
                        "Immediate backup solution required",
                        "Backup setup service ($149)", 149)>>, 3, 149)
    ELSE LET daysOld == calculateDaysSinceBackup(data.lastBackupDate.v)
         IN  IF NumGt(daysOld, 90)
             THEN Outcome(<<Flag(3, "CRITICAL", "Data Protection",
                                 "Re-enable and verify backup system immediately",
                                 "Backup setup service ($149)", 149)>>, 3, 149)
             ELSE IF NumGt(daysOld, 30)
             THEN Outcome(<<Flag(3, "MODERATE", "Data Protection",
                                 "Verify backup schedule and re-enable if needed",
                                 "Backup setup service ($149)", 149)>>, 2, 149)
             ELSE Nothing

\* RuleBackup without the sentinel test: "Never" is parsed as a date
RuleBackup_NoSentinel(data) ==
    IF TruthyStr(data.lastBackupDate)
    THEN LET daysOld == calculateDaysSinceBackup(data.lastBackupDate.v)
         IN  IF NumGt(daysOld, 90)
             THEN Outcome(<<Flag(3, "CRITICAL", "Data Protection",
                                 "Re-enable and verify backup system immediately",
                                 "Backup setup service ($149)", 149)>>, 3, 149)
             ELSE IF NumGt(daysOld, 30)
             THEN Outcome(<<Flag(3, "MODERATE", "Data Protection",
                                 "Verify backup schedule and re-enable if needed",
                                 "Backup setup service ($149)", 149)>>, 2, 149)
             ELSE Nothing
    ELSE Nothing

\* RuleBackup as in the earlier revision: MODERATE beyond 30 days and no
\* CRITICAL cutoff at 90 days
RuleBackup_NoCriticalCutoff(data) ==
    IF TruthyStr(data.lastBackupDate)
    THEN LET backup == data.lastBackupDate.v
         IN  IF backup = "Never" \/ backup = "Unknown"
             THEN Outcome(<<Flag(3, "CRITICAL", "Data Protection",
                                 "Immediate backup solution required",
                                 "Backup setup service ($149)", 149)>>, 3, 149)
             ELSE IF NumGt(calculateDaysSinceBackup(backup), 30)
             THEN Outcome(<<Flag(3, "MODERATE", "Data Protection",
                                 "Verify backup schedule and re-enable if needed",
                                 "Backup setup service ($149)", 149)>>, 2, 149)
             ELSE Nothing
    ELSE Nothing

RuleBackup(data) ==
    IF TruthyStr(data.lastBackupDate)
    THEN LET backup == data.lastBackupDate.v
         IN  IF backup = "Never" \/ backup = "Unknown"
             THEN Outcome(<<Flag(3, "CRITICAL", "Data Protection",
                                 "Immediate backup solution required",
                                 "Backup setup service ($149)", 149)>>, 3, 149)
             ELSE LET daysOld == calculateDaysSinceBackup(backup)
                  IN  IF NumGt(daysOld, 90)
                      THEN Outcome(<<Flag(3, "CRITICAL", "Data Protection",
                                          "Re-enable and verify backup system immediately",
                                          "Backup setup service ($149)", 149)>>, 3, 149)
                      ELSE IF NumGt(daysOld, 30)
                      THEN Outcome(<<Flag(3, "MODERATE", "Data Protection",
                                          "Verify backup schedule and re-enable if needed",
                                          "Backup setup service ($149)", 149)>>, 2, 149)
                      ELSE Nothing
    ELSE Nothing

\* RuleFirewall without the line totalOpportunity += 99
RuleFirewall_NoOpportunity(data) ==
    IF IsFalse(data.firewallEnabled)
    THEN Outcome(<<Flag(4, "MODERATE", "Security",
                        "Enable firewall for network protection",
                        "Security audit ($99)", 99)>>, 1, 0)
    ELSE Nothing

RuleFirewall(data) ==
    IF IsFalse(data.firewallEnabled)
    THEN Outcome(<<Flag(4, "MODERATE", "Security",
                        "Enable firewall for network protection",
                        "Security audit ($99)", 99)>>, 1, 99)
    ELSE Nothing

RuleFileVault(data) ==
    IF IsFalse(data.fileVaultEnabled)
    THEN Outcome(<<Flag(5, "INFO", "Security",
                        "Consider enabling FileVault for data protection",
                        "Security setup ($79)", 79)>>, 0, 79)
    ELSE Nothing

RuleFreeStorage(data) ==
    IF Defined(data.freeStoragePercent)
    THEN LET freePercent == ToNum(data.freeStoragePercent)
         IN  IF freePercent < 10
             THEN Outcome(<<Flag(6, "CRITICAL", "Storage",
                                 "Immediate storage upgrade or cleanup required",
                                 "Storage upgrade consultation", 0)>>, 3, 0)
             ELSE IF freePercent < 20
             THEN Outcome(<<Flag(6, "MODERATE", "Storage",
                                 "Storage upgrade recommended soon",
                                 "Storage upgrade consultation", 0)>>, 2, 0)
             ELSE IF freePercent >= 50
             THEN Outcome(<<Flag(6, "POSITIVE", "Storage", "No action needed",
                                 NoUpsell, 0)>>, 0, 0)
             ELSE Nothing
    ELSE Nothing

RuleStorageType(data) ==
    IF TruthyStr(data.storageType)
    THEN LET storageType == toUpperCase(data.storageType.v)
         IN  IF \/ includes(storageType, "HDD")
                \/ includes(storageType, "HARD")
                \/ includes(storageType, "MECHANICAL")
             THEN Outcome(<<Flag(7, "MODERATE", "Storage",
                                 "Upgrade to SSD for 5-10x faster performance",
                                 "SSD upgrade ($150-300)", 200)>>, 2, 200)
             ELSE Nothing
    ELSE Nothing

\* RuleRamCapacity with the soldered test left out of the MODERATE branch
RuleRamCapacity_ModerateOnSoldered(data) ==
    IF TruthyNum(data.totalRAM)
    THEN IF MacModelDerefThrows(data) THEN Throws
         ELSE LET ram == data.totalRAM.v
                  pressure == StrOr(data.memoryPressure, "Normal")
                  soldered == isSoldered(data.macModel.v)
              IN  IF ram <= 8 /\ ~soldered
                  THEN Outcome(<<Flag(8, "CRITICAL", "Memory",
                                      "RAM upgrade critical for performance",
                                      IF ram <= 4 THEN "RAM upgrade ($200-400)"
                                                  ELSE "RAM upgrade ($150-300)",
                                      IF ram <= 4 THEN 300 ELSE 200)>>,
                               3, IF ram <= 4 THEN 300 ELSE 200)
                  ELSE IF ram < 16 /\ pressure \in {"Yellow", "Red", "High"}
                  THEN Outcome(<<Flag(8, "MODERATE", "Memory",
                                      "RAM upgrade recommended for smooth performance",
                                      "RAM upgrade ($150-250)", 200)>>, 2, 200)
                  ELSE IF ram >= 16 /\ pressure = "Normal"
                  THEN Outcome(<<Flag(8, "POSITIVE", "Memory", "No action needed",
                                      NoUpsell, 0)>>, 0, 0)
                  ELSE Nothing
    ELSE Nothing

\* RuleRamCapacity as in the earlier revision: no soldered-memory test
RuleRamCapacity_NoSolderedTest(data) ==
    IF TruthyNum(data.totalRAM)
    THEN LET ram == data.totalRAM.v
             pressure == StrOr(data.memoryPressure, "Normal")
         IN  IF ram <= 8
             THEN Outcome(<<Flag(8, "CRITICAL", "Memory",
                                 "RAM upgrade critical for performance",
                                 IF ram <= 4 THEN "RAM upgrade ($200-400)"
                                             ELSE "RAM upgrade ($150-300)",
                                 IF ram <= 4 THEN 300 ELSE 200)>>,
                          3, IF ram <= 4 THEN 300 ELSE 200)
             ELSE IF ram < 16 /\ pressure \in {"Yellow", "Red", "High"}
             THEN Outcome(<<Flag(8, "MODERATE", "Memory",
                                 "RAM upgrade recommended for smooth performance",
                                 "RAM upgrade ($150-250)", 200)>>, 2, 200)
             ELSE IF ram >= 16 /\ pressure = "Normal"
             THEN Outcome(<<Flag(8, "POSITIVE", "Memory", "No action needed",
                                 NoUpsell, 0)>>, 0, 0)
             ELSE Nothing
    ELSE Nothing

RuleRamCapacity(data) ==
    IF TruthyNum(data.totalRAM)
    THEN IF MacModelDerefThrows(data) THEN Throws
         ELSE LET ram == data.totalRAM.v
                  pressure == StrOr(data.memoryPressure, "Normal")
                  soldered == isSoldered(data.macModel.v)
              IN  IF ram <= 8 /\ ~soldered
                  THEN Outcome(<<Flag(8, "CRITICAL", "Memory",
                                      "RAM upgrade critical for performance",
                                      IF ram <= 4 THEN "RAM upgrade ($200-400)"
                                                  ELSE "RAM upgrade ($150-300)",
                                      IF ram <= 4 THEN 300 ELSE 200)>>,
                               3, IF ram <= 4 THEN 300 ELSE 200)
                  ELSE IF /\ ram < 16
                          /\ pressure \in {"Yellow", "Red", "High"}
                          /\ ~soldered
                  THEN Outcome(<<Flag(8, "MODERATE", "Memory",
                                      "RAM upgrade recommended for smooth performance",
                                      "RAM upgrade ($150-250)", 200)>>, 2, 200)
                  ELSE IF ram >= 16 /\ pressure = "Normal"
                  THEN Outcome(<<Flag(8, "POSITIVE", "Memory", "No action needed",
                                      NoUpsell, 0)>>, 0, 0)
                  ELSE Nothing
    ELSE Nothing

RuleLoginItems(data) ==
    IF TruthyNum(data.loginItemsCount) /\ data.loginItemsCount.v > 20
    THEN Outcome(<<Flag(9, "MODERATE", "Performance",
                        "Performance optimization needed",
                        "Performance optimization service ($129)", 129)>>, 1, 129)
    ELSE Nothing

RuleUpdateConfig(data) ==
    IF data.softwareUpdateStatus.st = "val"
       /\ data.softwareUpdateStatus.v = "Check manually"
    THEN Outcome(<<Flag(10, "MODERATE", "Maintenance",
                        "Enable automatic updates and install pending updates",
                        "System update & optimization service ($149)", 149)>>, 1, 149)
    ELSE Nothing

\* the replacement consultation fee: no flag is pushed
RuleReplacementFee(data) ==
    IF YearAtMost(extractYear(StrOr(data.macModel, "")), 2015)
    THEN Outcome(<<>>, 0, 150)
    ELSE Nothing

\* architecture is x86 / intel
IsIntelArch(architecture) ==
    \/ includes(toLowerCase(architecture), "x86")
    \/ includes(toLowerCase(architecture), "intel")

RuleCpuEra(data) ==
    IF TruthyStr(data.architecture) /\ TruthyStr(data.cpuBrand)
    THEN IF /\ IsIntelArch(data.architecture.v)
            /\ \/ includes(data.cpuBrand.v, "2015")
               \/ includes(data.cpuBrand.v, "2016")
               \/ includes(data.cpuBrand.v, "2014")
         THEN Outcome(<<Flag(12, "CRITICAL", "Hardware",
                             "Replacement recommended for AI workloads",
                             "Upgrade consultation", 0)>>, 2, 0)
         ELSE Nothing
    ELSE Nothing

RulePendingUpdates(data) ==
    IF /\ TruthyStr(data.softwareUpdateStatus)
       /\ data.softwareUpdateStatus.v # "Up to date"
       /\ data.softwareUpdateStatus.v # "Unknown"
    THEN LET parsed == parseInt(data.softwareUpdateStatus.v)
             updateCount == IF parsed.nan \/ parsed.val = 0 THEN 0 ELSE parsed.val
         IN  IF updateCount > 0
             THEN Outcome(<<Flag(13, "MODERATE", "Software",
                                 "Install available updates for security and performance",
                                 "System maintenance service ($129)", 129)>>, 1, 129)
             ELSE Nothing
    ELSE Nothing

RuleWifi(data) ==
    IF TruthyStr(data.wifiSignalStrength)
       /\ data.wifiSignalStrength.v \in {"Weak", "Fair"}
    THEN Outcome(<<Flag(14, "MODERATE", "Network",
                        "Network optimization or router upgrade recommended",
                        "Network assessment ($99)", 99)>>, 1, 99)
    ELSE Nothing

RuleRamSpeed(data) ==
    IF TruthyNum(data.ramSpeed) /\ data.ramSpeed.v > 0 /\ data.ramSpeed.v < 2400
    THEN IF MacModelDerefThrows(data) THEN Throws
         ELSE LET isIntel == /\ TruthyStr(data.architecture)
                             /\ IsIntelArch(data.architecture.v)
              IN  IF isIntel /\ ~isSoldered(data.macModel.v)
                  THEN Outcome(<<Flag(15, "MODERATE", "Performance",
                                      "RAM upgrade for faster performance",
                                      "RAM upgrade consultation", 0)>>, 1, 0)
                  ELSE Nothing
    ELSE Nothing

PositiveMonitors(data) ==
    IF TruthyNum(data.externalMonitors) /\ data.externalMonitors.v > 0
    THEN Outcome(<<Flag(16, "POSITIVE", "Display",
                        "Current setup is productivity-optimized", NoUpsell, 0)>>, 0, 0)
    ELSE Nothing

PositiveHighRam(data) ==
    IF TruthyNum(data.totalRAM) /\ data.totalRAM.v >= 32
    THEN Outcome(<<Flag(17, "POSITIVE", "Memory",
                        "System well-equipped for demanding tasks", NoUpsell, 0)>>, 0, 0)
    ELSE Nothing

PositiveAppleSilicon(data) ==
    IF TruthyStr(data.cpuBrand)
       /\ \E t \in {"M1", "M2", "M3", "M4"} : includes(data.cpuBrand.v, t)
    THEN Outcome(<<Flag(18, "POSITIVE", "Hardware Age",
                        "System is current-generation hardware", NoUpsell, 0)>>, 0, 0)
    ELSE Nothing

PositiveRecentBackup(data) ==
    IF /\ TruthyStr(data.lastBackupDate)
       /\ data.lastBackupDate.v # "Never"
       /\ data.lastBackupDate.v # "Unknown"
       /\ NumLe(calculateDaysSinceBackup(data.lastBackupDate.v), 7)
    THEN Outcome(<<Flag(19, "POSITIVE", "Data Protection",
                        "Continue current backup schedule", NoUpsell, 0)>>, 0, 0)
    ELSE Nothing

PositiveBattery(data) ==
    IF /\ TruthyNum(data.batteryCapacity) /\ data.batteryCapacity.v >= 90
       /\ TruthyNum(data.batteryCycles) /\ data.batteryCycles.v < 500
    THEN Outcome(<<Flag(20, "POSITIVE", "Battery", "No action needed",
                        NoUpsell, 0)>>, 0, 0)
    ELSE Nothing

\* the second external monitor block ("kept for backwards compatibility")
PositiveMonitorsCompat(data) ==
    IF TruthyNum(data.externalMonitors) /\ data.externalMonitors.v > 0
    THEN Outcome(<<Flag(21, "POSITIVE", "Display", "No action needed",
                        NoUpsell, 0)>>, 0, 0)
    ELSE Nothing

(***************************************************************************)
(* analyzeScanResults                                                       *)
(***************************************************************************)
\* the blocks in the order the function runs them
Blocks(data) ==
    << RuleSystemAge(data), RuleBattery(data), RuleBackup(data),
       RuleFirewall(data), RuleFileVault(data), RuleFreeStorage(data),
       RuleStorageType(data), RuleRamCapacity(data), RuleLoginItems(data),
       RuleUpdateConfig(data), RuleReplacementFee(data), RuleCpuEra(data),
       RulePendingUpdates(data), RuleWifi(data), RuleRamSpeed(data),
       PositiveMonitors(data), PositiveHighRam(data), PositiveAppleSilicon(data),
       PositiveRecentBackup(data), PositiveBattery(data),
       PositiveMonitorsCompat(data) >>

RECURSIVE ConcatFlags(_, _)
ConcatFlags(outs, k) ==
    IF k = 0 THEN <<>> ELSE ConcatFlags(outs, k - 1) \o outs[k].flags

RECURSIVE SumScore(_, _)
SumScore(outs, k) ==
    IF k = 0 THEN 0 ELSE SumScore(outs, k - 1) + outs[k].score

RECURSIVE SumOpp(_, _)
SumOpp(outs, k) ==
    IF k = 0 THEN 0 ELSE SumOpp(outs, k - 1) + outs[k].opp

CountSeverity(flags, sev) ==
    Cardinality({i \in 1..Len(flags) : flags[i].severity = sev})

\* the if / else-if ladder that sets priorityLevel
\* the ladder of an earlier revision: HOT from two CRITICAL flags or score 7
PriorityLevelOf_HotAtTwo(criticalCount, priorityScore) ==
    IF criticalCount >= 2 \/ priorityScore >= 7 THEN "HOT"
    ELSE IF criticalCount >= 1 \/ priorityScore >= 4 THEN "WARM"
    ELSE "COLD"

PriorityLevelOf(criticalCount, priorityScore) ==
    IF criticalCount >= 3 \/ priorityScore >= 8 THEN "HOT"
    ELSE IF criticalCount >= 2 \/ priorityScore >= 6 THEN "WARM"
    ELSE IF criticalCount >= 1 \/ priorityScore >= 4 THEN "WARM"
    ELSE "COLD"

\* the positive test made before the ladder instead of after it
SystemHealthOf_ExcellentFirst(criticalCount, moderateCount, positiveCount, priorityScore) ==
    IF positiveCount >= 2 /\ moderateCount <= 1 THEN "EXCELLENT"
    ELSE IF criticalCount >= 3 \/ priorityScore >= 8 THEN "CRITICAL"
    ELSE IF criticalCount >= 2 \/ priorityScore >= 6 THEN "NEEDS_ATTENTION"
    ELSE IF criticalCount >= 1 \/ priorityScore >= 4 THEN "MODERATE"
    ELSE "GOOD"

\* the same ladder, for systemHealth
SystemHealthOf(criticalCount, moderateCount, positiveCount, priorityScore) ==
    IF criticalCount >= 3 \/ priorityScore >= 8 THEN "CRITICAL"
    ELSE IF criticalCount >= 2 \/ priorityScore >= 6 THEN "NEEDS_ATTENTION"
    ELSE IF criticalCount >= 1 \/ priorityScore >= 4 THEN "MODERATE"
    ELSE IF positiveCount >= 2 /\ moderateCount <= 1 THEN "EXCELLENT"
    ELSE "GOOD"

\* no call of analyzeScanResults has been made
NoAnalysis ==
    [status |-> "none", flags |-> <<>>, priorityScore |-> 0,
     priorityLevel |-> "", systemHealth |-> "", criticalCount |-> 0,
     moderateCount |-> 0, positiveCount |-> 0, totalOpportunity |-> 0,
     flagCount |-> 0]

\* status "threw": the call raised a TypeError and returned nothing;
\* status "returned": the other fields are the returned object
analyzeScanResults(data) ==
    LET outs == Blocks(data)
        n == Len(outs)
    IN  IF \E k \in 1..n : outs[k].threw
        THEN [NoAnalysis EXCEPT !.status = "threw"]
        ELSE LET flags == ConcatFlags(outs, n)
                 priorityScore == SumScore(outs, n)
                 criticalCount == CountSeverity(flags, "CRITICAL")
                 moderateCount == CountSeverity(flags, "MODERATE")
                 positiveCount == CountSeverity(flags, "POSITIVE")
             IN  [status |-> "returned",
                  flags |-> flags,
                  priorityScore |-> priorityScore,
                  priorityLevel |-> PriorityLevelOf(criticalCount, priorityScore),
                  systemHealth |-> SystemHealthOf(criticalCount, moderateCount,
                                                  positiveCount, priorityScore),
                  criticalCount |-> criticalCount,
                  moderateCount |-> moderateCount,
                  positiveCount |-> positiveCount,
                  totalOpportunity |-> SumOpp(outs, n),
                  flagCount |-> Len(flags)]

(***************************************************************************)
(* calculateSystemGrade                                                     *)
(***************************************************************************)
\* totalRAM >= n when totalRAM may be undefined (NaN) or null (0)
RamAtLeast(data, n) == data.totalRAM.st # "undefined" /\ ToNum(data.totalRAM) >= n

\* the ladder by priorityScore alone, the CRITICAL count ignored
calculateSystemGrade_ScoreOnly(analysis, data) ==
    LET priorityScore == analysis.priorityScore
        moderateCount == analysis.moderateCount
        ladder ==
            IF priorityScore >= 12 THEN "D-"
            ELSE IF priorityScore >= 10 THEN "D+"
            ELSE IF priorityScore >= 7 THEN "C-"
            ELSE IF priorityScore >= 5 THEN "C+"
            ELSE IF priorityScore >= 3 \/ moderateCount >= 2 THEN "B-"
            ELSE IF priorityScore >= 1 THEN "B+"
            ELSE IF RamAtLeast(data, 16) THEN "A"
            ELSE "B"
    IN  IF priorityScore = 0 /\ moderateCount = 0 /\ RamAtLeast(data, 32)
        THEN "A+"
        ELSE ladder

\* A+ from the RAM size of the A rung, and whatever the MODERATE count
calculateSystemGrade_LooseAPlus(analysis, data) ==
    LET priorityScore == analysis.priorityScore
        criticalCount == analysis.criticalCount
        moderateCount == analysis.moderateCount
    IN  IF priorityScore >= 12 \/ criticalCount >= 4 THEN "D-"
        ELSE IF priorityScore >= 10 \/ criticalCount >= 3 THEN "D+"
        ELSE IF priorityScore >= 7 \/ criticalCount >= 2 THEN "C-"
        ELSE IF priorityScore >= 5 \/ criticalCount >= 1 THEN "C+"
        ELSE IF priorityScore >= 3 \/ moderateCount >= 2 THEN "B-"
        ELSE IF priorityScore >= 1 THEN "B+"
        ELSE IF RamAtLeast(data, 16) THEN "A+"
        ELSE "B"

calculateSystemGrade(analysis, data) ==
    LET priorityScore == analysis.priorityScore
        criticalCount == analysis.criticalCount
        moderateCount == analysis.moderateCount
        ladder ==
            IF priorityScore >= 12 \/ criticalCount >= 4 THEN "D-"
            ELSE IF priorityScore >= 10 \/ criticalCount >= 3 THEN "D+"
            ELSE IF priorityScore >= 7 \/ criticalCount >= 2 THEN "C-"
            ELSE IF priorityScore >= 5 \/ criticalCount >= 1 THEN "C+"
            ELSE IF priorityScore >= 3 \/ moderateCount >= 2 THEN "B-"
            ELSE IF priorityScore >= 1 THEN "B+"
            ELSE IF RamAtLeast(data, 16) THEN "A"
            ELSE "B"
    IN  IF /\ priorityScore = 0 /\ criticalCount = 0 /\ moderateCount = 0
           /\ RamAtLeast(data, 32)
        THEN "A+"
        ELSE ladder

(***************************************************************************)
(* generateInternalEmail: the call-script hook                              *)
(***************************************************************************)
\* flags.filter(f => f.severity === sev)
FilterSeverity(flags, sev) == SelectSeq(flags, LAMBDA f : f.severity = sev)

\* The hook is "I noticed <issue>. <recommendation>. ..." for a CRITICAL top
\* flag, "I saw <issue>. This is something we can help optimize. ..." for a
\* MODERATE one, and a fixed sentence without a flag; it is kept as its
\* opening words and the flag it is built from (none: the empty sequence).
HookFrom(opening, topFlags) == [opening |-> opening, topFlag |-> topFlags]

\* the hook built from the priced CRITICAL flag of highest value
callScriptHook_HighestValue(analysis) ==
    LET criticalFlags == FilterSeverity(analysis.flags, "CRITICAL")
        moderateFlags == FilterSeverity(analysis.flags, "MODERATE")
        top == CHOOSE i \in 1..Len(criticalFlags) :
                  /\ \A j \in 1..Len(criticalFlags) :
                        criticalFlags[j].value <= criticalFlags[i].value
                  /\ \A j \in 1..(i - 1) :
                        criticalFlags[j].value < criticalFlags[i].value
    IN  IF Len(criticalFlags) > 0
        THEN HookFrom("I noticed", <<criticalFlags[top]>>)
        ELSE IF Len(moderateFlags) > 0
        THEN HookFrom("I saw", <<moderateFlags[1]>>)
        ELSE HookFrom("Your scan results look great overall", <<>>)

callScriptHook(analysis) ==
    LET criticalFlags == FilterSeverity(analysis.flags, "CRITICAL")
        moderateFlags == FilterSeverity(analysis.flags, "MODERATE")
    IN  IF Len(criticalFlags) > 0
        THEN HookFrom("I noticed", <<criticalFlags[1]>>)
        ELSE IF Len(moderateFlags) > 0
        THEN HookFrom("I saw", <<moderateFlags[1]>>)
        ELSE HookFrom("Your scan results look great overall", <<>>)

(***************************************************************************)
(* Request bodies                                                           *)
(***************************************************************************)
\* the body {}
EmptyBody ==
    [clientEmail |-> NoStr, email |-> NoStr,
     macModel |-> NoStr, cpuBrand |-> NoStr, architecture |-> NoStr,
     totalRAM |-> NoNum, memoryPressure |-> NoStr, ramSpeed |-> NoNum,
     batteryCapacity |-> NoNum, batteryCycles |-> NoNum,
     lastBackupDate |-> NoStr,
     firewallEnabled |-> NoBool, fileVaultEnabled |-> NoBool,
     freeStoragePercent |-> NoNum, storageType |-> NoStr,
     loginItemsCount |-> NoNum, softwareUpdateStatus |-> NoStr,
     wifiSignalStrength |-> NoStr, externalMonitors |-> NoNum]

FieldNames == DOMAIN EmptyBody
\* the fields analyzeScanResults reads
ScanFields == FieldNames \ {"clientEmail", "email"}

\* the values a field takes in the model
FieldValues ==
    [clientEmail |-> {NoStr, Val(""), Val("not-an-email"), Val("lead@example.com")},
     email |-> {NoStr, Val(""), Val("lead@example.com")},
     macModel |-> {NoStr, Null(""), Val(""), Val("MacBookPro11,3"), Val("MacBookAir7,2"),
                   Val("MacBookAir10,1"), Val("MacBook9,1"), Val("iMac15,1"),
                   Val("MacBookPro14,1"), Val("Mac14,2"), Val("iMac (Late 2012)")},
     cpuBrand |-> {NoStr, Val(""), Val("Intel Core i5 2014"), Val("Intel Core i7"),
                   Val("Apple M1")},
     architecture |-> {NoStr, Val("x86_64"), Val("Intel 64"), Val("arm64")},
     totalRAM |-> {NoNum, Null(0), Val(0), Val(4), Val(8), Val(12), Val(16), Val(32)},
     memoryPressure |-> {NoStr, Val("Normal"), Val("Yellow")},
     ramSpeed |-> {NoNum, Val(1600), Val(2400)},
     batteryCapacity |-> {NoNum, Val(60), Val(80), Val(90), Val(98), Val(100)},
     batteryCycles |-> {NoNum, Val(0), Val(100), Val(900), Val(1300)},
     lastBackupDate |-> {NoStr, Val(""), Val("Never"), Val("Unknown"),
                         Val("not a date"),
                         Val("2026-11-04T00:00:00Z"), Val("2026-11-01T00:00:00Z"),
                         Val("2026-10-28T00:00:00Z"), Val("2026-10-27T23:00:00Z"),
                         Val("2026-10-05T00:00:00Z"), Val("2026-10-04T23:00:00Z"),
                         Val("2026-08-06T00:00:00Z"), Val("2026-08-05T23:00:00Z"),
                         Val("2026-03-01T00:00:00Z"), Val("2026-11-05T12:00:00Z")},
     firewallEnabled |-> {NoBool, Val(TRUE), Val(FALSE)},
     fileVaultEnabled |-> {NoBool, Val(TRUE), Val(FALSE)},
     freeStoragePercent |-> {NoNum, Null(0), Val(5), Val(15), Val(30), Val(60)},
     storageType |-> {NoStr, Val("SSD"), Val("Hard Disk Drive")},
     loginItemsCount |-> {NoNum, Val(5), Val(25)},
     softwareUpdateStatus |-> {NoStr, Val("Up to date"), Val("Check manually"),
                               Val("3 updates")},
     wifiSignalStrength |-> {NoStr, Val("Good"), Val("Weak")},
     externalMonitors |-> {NoNum, Val(0), Val(1), Val(2)}]

\* the scenarios of the specification, posted with a client address
ScenarioA ==
    [EmptyBody EXCEPT !.clientEmail = Val("lead@example.com"),
                      !.totalRAM = Val(4),
                      !.batteryCapacity = Val(60),
                      !.batteryCycles = Val(1300),
                      !.lastBackupDate = Val("Never"),
                      !.firewallEnabled = Val(FALSE)]

ScenarioB ==
    [EmptyBody EXCEPT !.clientEmail = Val("lead@example.com"),
                      !.macModel = Val("MacBookPro11,3"),
                      !.totalRAM = Val(8),
                      !.cpuBrand = Val("Intel Core i5 2014")]

ScenarioC == [EmptyBody EXCEPT !.clientEmail = Val("lead@example.com")]

ScenarioD ==
    [EmptyBody EXCEPT !.clientEmail = Val("lead@example.com"),
                      !.totalRAM = Val(32),
                      !.batteryCapacity = Val(98),
                      !.batteryCycles = Val(100),
                      !.lastBackupDate = Val("2026-11-01T00:00:00Z"),
                      !.externalMonitors = Val(1),
                      !.freeStoragePercent = Val(60)]

\* an old Intel desktop with upgradeable memory
OldIntelBody ==
    [EmptyBody EXCEPT !.email = Val("lead@example.com"),
                      !.macModel = Val("iMac15,1"),
                      !.cpuBrand = Val("Intel Core i7"),
                      !.architecture = Val("x86_64"),
                      !.totalRAM = Val(8),
                      !.ramSpeed = Val(1600),
                      !.storageType = Val("Hard Disk Drive"),
                      !.fileVaultEnabled = Val(FALSE)]

\* a recent Apple Silicon laptop
AppleSiliconBody ==
    [EmptyBody EXCEPT !.clientEmail = Val("lead@example.com"),
                      !.macModel = Val("MacBookAir10,1"),
                      !.cpuBrand = Val("Apple M1"),
                      !.architecture = Val("arm64"),
                      !.totalRAM = Val(16),
                      !.memoryPressure = Val("Normal"),
                      !.batteryCapacity = Val(90),
                      !.batteryCycles = Val(100),
                      !.lastBackupDate = Val("2026-10-05T00:00:00Z"),
                      !.softwareUpdateStatus = Val("3 updates"),
                      !.wifiSignalStrength = Val("Weak"),
                      !.loginItemsCount = Val(25)]

\* a laptop whose battery reports full capacity after many cycles
WornBatteryBody ==
    [EmptyBody EXCEPT !.clientEmail = Val("lead@example.com"),
                      !.macModel = Val("MacBookPro14,1"),
                      !.cpuBrand = Val("Intel Core i7"),
                      !.batteryCapacity = Val(100),
                      !.batteryCycles = Val(1300)]

BaseBodies ==
    {ScenarioA, ScenarioB, ScenarioC, ScenarioD, OldIntelBody, AppleSiliconBody,
     WornBatteryBody}

\* the fields in a fixed order
FieldSeq ==
    <<"clientEmail", "email", "macModel", "cpuBrand", "architecture", "totalRAM",
      "memoryPressure", "ramSpeed", "batteryCapacity", "batteryCycles",
      "lastBackupDate", "firewallEnabled", "fileVaultEnabled",
      "freeStoragePercent", "storageType", "loginItemsCount",
      "softwareUpdateStatus", "wifiSignalStrength", "externalMonitors">>

RECURSIVE Overridden(_, _, _)
\* the bodies that differ from body b in at most k of the fields
\* FieldSeq[i], FieldSeq[i+1], ...
Overridden(b, i, k) ==
    IF k = 0 \/ i > Len(FieldSeq) THEN {b}
    ELSE Overridden(b, i + 1, k)
         \cup UNION {Overridden([b EXCEPT ![FieldSeq[i]] = x], i + 1, k - 1) :
                        x \in FieldValues[FieldSeq[i]] \ {b[FieldSeq[i]]}}

Requests == UNION {Overridden(b, 1, MaxOverrides) : b \in BaseBodies}

\* the part of a body that analyzeScanResults reads
ScanRecord(body) == [body EXCEPT !.clientEmail = NoStr, !.email = NoStr]

(***************************************************************************)
(* POST /scan-results                                                       *)
(***************************************************************************)
VARIABLES
    pc,            \* where the handler of the request in progress stands
    data,          \* req.body
    analysis,      \* what analyzeScanResults(data) gave
    grade,         \* letter of calculateSystemGrade, from generateClientEmail
    clientSend,    \* the resend.emails.send call to the client
    internalSend,  \* the resend.emails.send call to the operator
    response       \* HTTP status sent, 0 when none

vars == <<pc, data, analysis, grade, clientSend, internalSend, response>>

Init ==
    /\ pc = "idle"
    /\ data = EmptyBody
    /\ analysis = NoAnalysis
    /\ grade = ""
    /\ clientSend = "none"
    /\ internalSend = "none"
    /\ response = 0

\* The handler with the client send started before the analysis: an
\* exception of the analysis is answered 500 after the client was mailed.
Handle_SendBeforeAnalysis(body) ==
    /\ data' = body
    /\ IF ~TruthyStr(body.clientEmail) /\ ~TruthyStr(body.email)
       THEN /\ response' = 400
            /\ pc' = "done"
            /\ UNCHANGED <<analysis, grade, clientSend, internalSend>>
       ELSE /\ analysis' = analyzeScanResults(body)
            /\ IF analysis'.status = "threw"
               THEN /\ response' = 500
                    /\ pc' = "done"
                    /\ clientSend' = "ok"
                    /\ UNCHANGED <<grade, internalSend>>
               ELSE /\ grade' = calculateSystemGrade(analysis', body)
                    /\ clientSend' = "pending"
                    /\ pc' = "awaitClient"
                    /\ UNCHANGED <<internalSend, response>>

\* The handler up to its first await: validation, analysis, rendering and
\* the call that starts the client send.  A TypeError in the analysis is
\* caught by the handler's catch, which answers 500.
Handle(body) ==
    /\ data' = body
    /\ IF ~TruthyStr(body.clientEmail) /\ ~TruthyStr(body.email)
       THEN /\ response' = 400
            /\ pc' = "done"
            /\ UNCHANGED <<analysis, grade, clientSend, internalSend>>
       ELSE /\ analysis' = analyzeScanResults(body)
            /\ IF analysis'.status = "threw"
               THEN /\ response' = 500
                    /\ pc' = "done"
                    /\ UNCHANGED <<grade, clientSend, internalSend>>
               ELSE /\ grade' = calculateSystemGrade(analysis', body)
                    /\ clientSend' = "pending"
                    /\ pc' = "awaitClient"
                    /\ UNCHANGED <<internalSend, response>>

\* a request arrives
Receive ==
    /\ pc = "idle"
    /\ \E body \in Requests : Handle(body)

\* the client send resolves (with data, or with an error object): the
\* handler goes on and starts the operator send
ClientSendResolves(outcome) ==
    /\ pc = "awaitClient"
    /\ clientSend' = outcome
    /\ internalSend' = "pending"
    /\ pc' = "awaitInternal"
    /\ UNCHANGED <<data, analysis, grade, response>>

\* the client send rejects: the catch answers 500
ClientSendRejects ==
    /\ pc = "awaitClient"
    /\ clientSend' = "rejected"
    /\ response' = 500
    /\ pc' = "done"
    /\ UNCHANGED <<data, analysis, grade, internalSend>>

InternalSendResolves(outcome) ==
    /\ pc = "awaitInternal"
    /\ internalSend' = outcome
    /\ response' = 200
    /\ pc' = "done"
    /\ UNCHANGED <<data, analysis, grade, clientSend>>

InternalSendRejects ==
    /\ pc = "awaitInternal"
    /\ internalSend' = "rejected"
    /\ response' = 500
    /\ pc' = "done"
    /\ UNCHANGED <<data, analysis, grade, clientSend>>

\* the request is over; nothing of it is kept
Finish ==
    /\ pc = "done"
    /\ pc' = "idle"
    /\ data' = EmptyBody
    /\ analysis' = NoAnalysis
    /\ grade' = ""
    /\ clientSend' = "none"
    /\ internalSend' = "none"
    /\ response' = 0

SendResolutions == {"ok", "error"}

Next ==
    \/ Receive
    \/ \E outcome \in SendResolutions : ClientSendResolves(outcome)
    \/ ClientSendRejects
    \/ \E outcome \in SendResolutions : InternalSendResolves(outcome)
    \/ InternalSendRejects
    \/ Finish

Spec == Init /\ [][Next]_vars

(***************************************************************************)
(* The tier ladders and the grade as functions of the counts               *)
(*                                                                         *)
(* priorityLevel, systemHealth and the grade depend on the flags only      *)
(* through criticalCount, moderateCount, positiveCount and priorityScore,  *)
(* and on the body only through totalRAM.  SpecTiers applies the same      *)
(* operators to every combination of those inputs within the bounds, the   *)
(* combinations no request of Requests produces included.                  *)
(***************************************************************************)
\* largest number of flags of one severity
MaxCount == 4
\* largest priorityScore
MaxScore == 13

\* totalRAM: absent, null, or a size in GB
RamValues == {NoNum, Null(0), Val(8), Val(16), Val(32), Val(64)}

\* the object analyzeScanResults returns, as far as the counts decide it
Tiers(criticalCount, moderateCount, positiveCount, priorityScore) ==
    [NoAnalysis EXCEPT
        !.status = "returned",
        !.priorityScore = priorityScore,
        !.priorityLevel = PriorityLevelOf(criticalCount, priorityScore),
        !.systemHealth = SystemHealthOf(criticalCount, moderateCount,
                                        positiveCount, priorityScore),
        !.criticalCount = criticalCount,
        !.moderateCount = moderateCount,
        !.positiveCount = positiveCount]

\* the ladders and calculateSystemGrade applied to one combination
Classify ==
    /\ pc = "idle"
    /\ \E criticalCount \in 0..MaxCount, moderateCount \in 0..MaxCount,
          positiveCount \in 0..MaxCount, priorityScore \in 0..MaxScore,
          totalRAM \in RamValues :
          /\ data' = [EmptyBody EXCEPT !.totalRAM = totalRAM]
          /\ analysis' = Tiers(criticalCount, moderateCount, positiveCount,
                               priorityScore)
          /\ grade' = calculateSystemGrade(analysis', data')
    /\ pc' = "done"
    /\ UNCHANGED <<clientSend, internalSend, response>>

NextTiers == Classify \/ Finish

SpecTiers == Init /\ [][NextTiers]_vars

(***************************************************************************)
(* extractYear on model strings                                            *)
(*                                                                         *)
(* SpecYear analyses records that carry only a model string and a CPU      *)
(* description, over every token of the table and some strings outside it, *)
(* alone or with text before and after.                                    *)
(***************************************************************************)
\* the family/generation tokens of the table
TableTokens == {ModelYearTable[k][1] : k \in 1..Len(ModelYearTable)}
\* identifiers of families and generations the table does not list
OtherTokens == {"", "Mac14", "MacBookPro7", "MacBookAir4", "iMac12", "MacBook",
                "Macmini5", "Xserve3"}
ModelPrefixes == {"", "Apple "}
ModelSuffixes == {"", ",1", ",2", "1,1", " (Late 2013)", " 2021 20"}

ModelStrings ==
    {p \o t \o x : p \in ModelPrefixes, t \in TableTokens \cup OtherTokens,
                   x \in ModelSuffixes}
    \cup {"MacBookPro11,3 / iMac20,1", "iMac20,1 / MacBookPro11,3", "20", "2O15",
          "Mid 2012 (2019 logic board)"}

\* analyzeScanResults on a record with a model string and a CPU description
AnalyzeModel ==
    /\ pc = "idle"
    /\ \E macModel \in ModelStrings :
          /\ data' = [EmptyBody EXCEPT !.macModel = Val(macModel),
                                       !.cpuBrand = Val("Intel Core i7")]
          /\ analysis' = analyzeScanResults(data')
          /\ grade' = calculateSystemGrade(analysis', data')
    /\ pc' = "done"
    /\ UNCHANGED <<clientSend, internalSend, response>>

NextYear == AnalyzeModel \/ Finish

SpecYear == Init /\ [][NextYear]_vars

(***************************************************************************)
(* Properties                                                               *)
(***************************************************************************)
\* analyzeScanResults has returned to the handler of the request in
\* progress, which awaits its first send: the Analysis is observed where it
\* is produced (no later step changes data or analysis before Finish)
Returned == analysis.status = "returned" /\ pc = "awaitClient"
\* the handler has called analyzeScanResults, which returned or threw
Evaluated == Returned \/ analysis.status = "threw"

\* the request in progress carries exactly the scan fields of body
SameScan(body) == pc # "idle" /\ ScanRecord(data) = ScanRecord(body)

FlagsOf(sev, cat) ==
    {i \in 1..Len(analysis.flags) :
        analysis.flags[i].severity = sev /\ analysis.flags[i].category = cat}
FlagsOfSeverity(sev) ==
    {i \in 1..Len(analysis.flags) : analysis.flags[i].severity = sev}
FlagsOfRule(r) ==
    {i \in 1..Len(analysis.flags) : analysis.flags[i].rule = r}

\* C1: the rule engine is total: whatever subset of the optional fields
\* the record has, analyzeScanResults returns an Analysis and raises no
\* exception.
C1_EngineIsTotal == analysis.status # "threw"

\* the fields a block needs to be present, by position in Blocks
RequiredFields ==
    << {"macModel"}, {"batteryCapacity", "batteryCycles"}, {"lastBackupDate"},
       {"firewallEnabled"}, {"fileVaultEnabled"}, {"freeStoragePercent"},
       {"storageType"}, {"totalRAM"}, {"loginItemsCount"},
       {"softwareUpdateStatus"}, {"macModel"}, {"architecture", "cpuBrand"},
       {"softwareUpdateStatus"}, {"wifiSignalStrength"}, {"ramSpeed"},
       {"externalMonitors"}, {"totalRAM"}, {"cpuBrand"}, {"lastBackupDate"},
       {"batteryCapacity", "batteryCycles"}, {"externalMonitors"} >>

\* C2: for every optional field f and every record that lacks f, each rule
\* that depends on f emits no flag and adds 0 to priorityScore and 0 to
\* totalOpportunity (the battery rule contributes nothing when either
\* batteryCapacity or batteryCycles is absent).
C2_AbsentFieldContributesNothing ==
    Returned =>
        \A k \in 1..Len(RequiredFields) :
            (\E f \in RequiredFields[k] : data[f].st = "undefined")
                => /\ FlagsOfRule(k) = {}
                   /\ Blocks(data)[k].score = 0
                   /\ Blocks(data)[k].opp = 0

\* C3: scenario A yields CRITICAL flags for Battery, Data Protection and
\* Memory (value 300), a MODERATE Security flag, priorityScore 10,
\* systemHealth CRITICAL and priorityLevel HOT.
C3_ScenarioA ==
    (Evaluated /\ SameScan(ScenarioA)) =>
        /\ Returned
        /\ FlagsOf("CRITICAL", "Battery") # {}
        /\ FlagsOf("CRITICAL", "Data Protection") # {}
        /\ \E i \in FlagsOf("CRITICAL", "Memory") : analysis.flags[i].value = 300
        /\ FlagsOf("MODERATE", "Security") # {}
        /\ analysis.priorityScore = 10
        /\ analysis.systemHealth = "CRITICAL"
        /\ analysis.priorityLevel = "HOT"

\* C4: scenario C, the empty record, returns without throwing an Analysis
\* with no flag, priorityScore 0, systemHealth GOOD, priorityLevel COLD and
\* totalOpportunity 0.
C4_ScenarioC ==
    (Evaluated /\ SameScan(ScenarioC)) =>
        /\ Returned
        /\ analysis.flags = <<>>
        /\ analysis.flagCount = 0
        /\ analysis.priorityScore = 0
        /\ analysis.systemHealth = "GOOD"
        /\ analysis.priorityLevel = "COLD"
        /\ analysis.totalOpportunity = 0

C4_Witness == SameScan(ScenarioC) /\ Returned /\ analysis.flags = <<>>

\* C5: scenario D yields at least two POSITIVE flags, no CRITICAL and no
\* MODERATE flag, systemHealth EXCELLENT and the letter grade A+.
C5_ScenarioD ==
    (Evaluated /\ SameScan(ScenarioD)) =>
        /\ Returned
        /\ Cardinality(FlagsOfSeverity("POSITIVE")) >= 2
        /\ FlagsOfSeverity("CRITICAL") = {}
        /\ FlagsOfSeverity("MODERATE") = {}
        /\ analysis.systemHealth = "EXCELLENT"
        /\ grade = "A+"

\* the scan fields present in the request in progress
PresentScanFields == {f \in ScanFields : data[f].st # "undefined"}

\* flags whose recommendation or upsell proposes a RAM upgrade
RamUpgradeFlags ==
    {i \in 1..Len(analysis.flags) :
        \/ includes(analysis.flags[i].recommendation, "RAM upgrade")
        \/ includes(analysis.flags[i].upsell, "RAM upgrade")}

\* the record of scenario B: a soldered-family model of year <= 2015,
\* totalRAM 8, a cpuBrand containing "2014", and no other field
IsScenarioB ==
    /\ Evaluated
    /\ PresentScanFields = {"macModel", "totalRAM", "cpuBrand"}
    /\ data.totalRAM = Val(8)
    /\ data.macModel.st = "val" /\ data.cpuBrand.st = "val"
    /\ includes(data.cpuBrand.v, "2014")
    /\ InSolderedFamily(data.macModel.v)
    /\ YearAtMost(extractYear(data.macModel.v), 2015)

\* C6: on scenario B the system-age rule emits 3 or 4 flags, the RAM
\* capacity rule emits none, and no flag carries a RAM-upgrade upsell or
\* recommendation.
C6_ScenarioB ==
    IsScenarioB =>
        /\ Returned
        /\ Cardinality(FlagsOfRule(1)) \in {3, 4}
        /\ FlagsOfRule(8) = {}
        /\ RamUpgradeFlags = {}

C6_Witness ==
    /\ IsScenarioB
    /\ data.macModel.v = "MacBookAir7,2"
    /\ Cardinality(FlagsOfRule(1)) = 4

\* a soldered-family macModel with totalRAM <= 8
SolderedSmallRam ==
    /\ Evaluated
    /\ data.totalRAM.st = "val" /\ data.totalRAM.v <= 8
    /\ data.macModel.st = "val"
    /\ InSolderedFamily(data.macModel.v)

\* C7 as stated: every record whose macModel matches the soldered family
\* list and whose totalRAM is <= 8 has exactly one CRITICAL Memory flag.
C7_ExactlyOneMemoryCritical ==
    SolderedSmallRam =>
        /\ Returned
        /\ Cardinality(FlagsOf("CRITICAL", "Memory")) = 1

\* C7 as amended: such a record has at most one CRITICAL Memory flag,
\* never two: exactly one, the non-upgradeable note of the system-age rule,
\* when cpuBrand is non-empty and the extracted year is <= 2015, and none
\* otherwise.
C7_AtMostOneMemoryCritical ==
    SolderedSmallRam =>
        /\ Returned
        /\ FlagsOf("CRITICAL", "Memory") \subseteq FlagsOfRule(1)
        /\ Cardinality(FlagsOf("CRITICAL", "Memory")) =
              IF /\ TruthyStr(data.cpuBrand)
                 /\ YearAtMost(extractYear(data.macModel.v), 2015)
              THEN 1 ELSE 0

C7_Witness ==
    /\ SolderedSmallRam
    /\ data.totalRAM.v = 4
    /\ Cardinality(FlagsOf("CRITICAL", "Memory")) = 1

RECURSIVE SumValues(_, _)
\* sum of the value fields of the first k flags
SumValues(flags, k) ==
    IF k = 0 THEN 0 ELSE SumValues(flags, k - 1) + flags[k].value

\* C8 as stated: totalOpportunity equals the sum of the value fields of the
\* flags of the Analysis.
C8_OpportunityIsSumOfValues ==
    Returned =>
        analysis.totalOpportunity = SumValues(analysis.flags, Len(analysis.flags))

\* the consultation fee added without a flag
ReplacementFee == 150

\* C8 as amended: totalOpportunity equals the sum of the value fields of
\* the flags, plus 150 when the year extracted from macModel is <= 2015.
C8_OpportunityIsSumPlusFee ==
    Returned =>
        analysis.totalOpportunity =
            SumValues(analysis.flags, Len(analysis.flags))
            + (IF YearAtMost(extractYear(StrOr(data.macModel, "")), 2015)
               THEN ReplacementFee ELSE 0)

C8_Witness ==
    /\ Returned
    /\ SumValues(analysis.flags, Len(analysis.flags)) > 0
    /\ analysis.totalOpportunity > SumValues(analysis.flags, Len(analysis.flags))

\* the backup timestamp of the request in progress parses as a date
ParseableBackup ==
    /\ Returned
    /\ TruthyStr(data.lastBackupDate)
    /\ ~DateParse(data.lastBackupDate.v).nan

\* age in whole days of a parseable timestamp
AgeDays(s) == CeilDiv(Abs(Now - DateParse(s).val), HoursPerDay)

\* the Data Protection outcome of a record, ordered by severity:
\* 0 POSITIVE, 1 no flag, 2 MODERATE, 3 CRITICAL
BackupRank(body) ==
    IF RuleBackup(body).flags # <<>>
    THEN IF RuleBackup(body).flags[1].severity = "CRITICAL" THEN 3 ELSE 2
    ELSE IF PositiveRecentBackup(body).flags # <<>> THEN 0 ELSE 1

\* the parseable timestamps of the model
ParseableDates ==
    {x.v : x \in {y \in FieldValues.lastBackupDate : y.st = "val" /\ ~DateParse(y.v).nan}}

\* C9: with a parseable backup timestamp of age d whole days, the Data
\* Protection outcome is POSITIVE for d <= 7, no flag for 7 < d <= 30,
\* MODERATE (weight 2) for 30 < d <= 90 and CRITICAL (weight 3) for d > 90;
\* with the rest of the record fixed, a larger age never gives a lower
\* severity.
C9_BackupAgeLadder ==
    ParseableBackup =>
        LET d == AgeDays(data.lastBackupDate.v)
            dp == {i \in 1..Len(analysis.flags) :
                      analysis.flags[i].category = "Data Protection"}
        IN  /\ d <= 7 =>
                  /\ Cardinality(dp) = 1
                  /\ dp = FlagsOf("POSITIVE", "Data Protection")
                  /\ RuleBackup(data).score = 0
            /\ (d > 7 /\ d <= 30) => dp = {} /\ RuleBackup(data).score = 0
            /\ (d > 30 /\ d <= 90) =>
                  /\ Cardinality(dp) = 1
                  /\ dp = FlagsOf("MODERATE", "Data Protection")
                  /\ RuleBackup(data).score = 2
            /\ d > 90 =>
                  /\ Cardinality(dp) = 1
                  /\ dp = FlagsOf("CRITICAL", "Data Protection")
                  /\ RuleBackup(data).score = 3
            /\ \A s \in ParseableDates :
                  AgeDays(s) >= d =>
                      BackupRank([data EXCEPT !.lastBackupDate = Val(s)])
                          >= BackupRank(data)

C9_Witness ==
    /\ ParseableBackup
    /\ AgeDays(data.lastBackupDate.v) = 91
    /\ FlagsOf("CRITICAL", "Data Protection") # {}

\* the backup value of the request in progress reaches
\* calculateDaysSinceBackup and does not parse as a date
UnparseableBackup ==
    /\ Returned
    /\ TruthyStr(data.lastBackupDate)
    /\ data.lastBackupDate.v \notin {"Never", "Unknown"}
    /\ DateParse(data.lastBackupDate.v).nan

\* C10: for a timestamp that cannot be parsed calculateDaysSinceBackup
\* returns 0, and the rules treat the backup as one of age 0 days: they
\* push the POSITIVE recent-backup flag.
C10_UnparseableIsZeroDays ==
    UnparseableBackup =>
        /\ calculateDaysSinceBackup(data.lastBackupDate.v) = Num(0)
        /\ FlagsOf("POSITIVE", "Data Protection") # {}

(***************************************************************************)
(* C11  priorityLevel                                                       *)
(***************************************************************************)
\* C11: for every combination of criticalCount and priorityScore,
\* priorityLevel is HOT if criticalCount >= 3 or priorityScore >= 8,
\* otherwise WARM if criticalCount >= 1 or priorityScore >= 4, otherwise
\* COLD.
C11_PriorityLevelLadder ==
    analysis.status = "returned" =>
        analysis.priorityLevel =
            CASE analysis.criticalCount >= 3 \/ analysis.priorityScore >= 8
                    -> "HOT"
              [] OTHER ->
                    IF analysis.criticalCount >= 1 \/ analysis.priorityScore >= 4
                    THEN "WARM" ELSE "COLD"

\* WARM by the middle rung of the code (two CRITICAL flags, score under 6),
\* which the claim folds into its second rung
C11_Witness ==
    /\ analysis.status = "returned"
    /\ analysis.criticalCount = 2
    /\ analysis.priorityScore < 6
    /\ analysis.priorityLevel = "WARM"

(***************************************************************************)
(* C12  systemHealth                                                        *)
(***************************************************************************)
\* C12: for every combination of the three counts and priorityScore,
\* systemHealth is CRITICAL if criticalCount >= 3 or score >= 8, else
\* NEEDS_ATTENTION if criticalCount >= 2 or score >= 6, else MODERATE if
\* criticalCount >= 1 or score >= 4, else EXCELLENT if positiveCount >= 2
\* and moderateCount <= 1, else GOOD; EXCELLENT is reported only when
\* criticalCount = 0 and score < 4.
C12_SystemHealthLadder ==
    analysis.status = "returned" =>
        LET c == analysis.criticalCount
            m == analysis.moderateCount
            p == analysis.positiveCount
            s == analysis.priorityScore
        IN  /\ analysis.systemHealth =
                CASE c >= 3 \/ s >= 8 -> "CRITICAL"
                  [] ~(c >= 3 \/ s >= 8) /\ (c >= 2 \/ s >= 6)
                        -> "NEEDS_ATTENTION"
                  [] ~(c >= 2 \/ s >= 6) /\ (c >= 1 \/ s >= 4) -> "MODERATE"
                  [] c = 0 /\ s < 4 /\ p >= 2 /\ m <= 1 -> "EXCELLENT"
                  [] OTHER -> "GOOD"
            /\ analysis.systemHealth = "EXCELLENT" => c = 0 /\ s < 4

\* EXCELLENT at the edge of its rung: one MODERATE flag, score 3
C12_Witness ==
    /\ analysis.status = "returned"
    /\ analysis.systemHealth = "EXCELLENT"
    /\ analysis.moderateCount = 1
    /\ analysis.priorityScore = 3

(***************************************************************************)
(* C13  calculateSystemGrade                                                *)
(***************************************************************************)
\* totalRAM is present and at least n (a null totalRAM compares as 0)
C13_Ram(n) == data.totalRAM.st = "val" /\ data.totalRAM.v >= n

\* C13: the grade is A+ exactly when score = 0, criticalCount = 0,
\* moderateCount = 0 and RAM >= 32; otherwise it is the first matching rung
\* of D- (score >= 12 or crit >= 4), D+ (score >= 10 or crit >= 3), C-
\* (score >= 7 or crit >= 2), C+ (score >= 5 or crit >= 1), B- (score >= 3
\* or moderate >= 2), B+ (score >= 1), A (RAM >= 16), else B; when totalRAM
\* is absent the grade is never A or A+.
C13_GradeLadder ==
    analysis.status = "returned" =>
        LET s == analysis.priorityScore
            c == analysis.criticalCount
            m == analysis.moderateCount
            perfect == s = 0 /\ c = 0 /\ m = 0 /\ C13_Ram(32)
            rung == CASE s >= 12 \/ c >= 4 -> "D-"
                      [] s < 12 /\ c < 4 /\ (s >= 10 \/ c >= 3) -> "D+"
                      [] s < 10 /\ c < 3 /\ (s >= 7 \/ c >= 2) -> "C-"
                      [] s < 7 /\ c < 2 /\ (s >= 5 \/ c >= 1) -> "C+"
                      [] s < 5 /\ c < 1 /\ (s >= 3 \/ m >= 2) -> "B-"
                      [] s < 3 /\ c < 1 /\ m < 2 /\ s >= 1 -> "B+"
                      [] s = 0 /\ c = 0 /\ m < 2 /\ C13_Ram(16) -> "A"
                      [] OTHER -> "B"
        IN  /\ (grade = "A+") <=> perfect
            /\ ~perfect => grade = rung
            /\ data.totalRAM.st = "undefined" => grade \notin {"A", "A+"}

\* the two ends of the RAM rungs: A+ at 32 GB, and A kept from A+ by one
\* MODERATE flag of weight 0
C13_Witness ==
    /\ analysis.status = "returned"
    /\ analysis.priorityScore = 0
    /\ analysis.criticalCount = 0
    /\ \/ analysis.moderateCount = 0 /\ data.totalRAM = Val(32) /\ grade = "A+"
       \/ analysis.moderateCount = 1 /\ data.totalRAM = Val(32) /\ grade = "A"

(***************************************************************************)
(* C14  email validation                                                    *)
(*                                                                         *)
(* The first revision of the handler tests the address against             *)
(* /^[^\s@]+@[^\s@]+\.[^\s@]{2,}$/ after String(...).trim(); the latest    *)
(* revision tests only that one of the two fields is truthy.               *)
(***************************************************************************)
WhitespaceChars == " \t\n\r"
IsSpace(c) == \E k \in 1..Len(WhitespaceChars) : CharAt(WhitespaceChars, k) = c

RECURSIVE trimStart(_)
trimStart(s) ==
    IF s # "" /\ IsSpace(CharAt(s, 1)) THEN trimStart(SubSeq(s, 2, Len(s)))
    ELSE s
RECURSIVE trimEnd(_)
trimEnd(s) ==
    IF s # "" /\ IsSpace(CharAt(s, Len(s))) THEN trimEnd(SubSeq(s, 1, Len(s) - 1))
    ELSE s
\* String.prototype.trim
trim(s) == trimEnd(trimStart(s))

\* every character of s[from..to] is neither whitespace nor "@", and there
\* is at least one
IsAddressRun(s, from, to) ==
    /\ from <= to
    /\ \A i \in from..to : ~IsSpace(CharAt(s, i)) /\ CharAt(s, i) # "@"

\* the regular expression of the first revision
isValidEmail(email) ==
    \E at \in 1..Len(email), dot \in 1..Len(email) :
        /\ CharAt(email, at) = "@"
        /\ CharAt(email, dot) = "."
        /\ IsAddressRun(email, 1, at - 1)
        /\ IsAddressRun(email, at + 1, dot - 1)
        /\ IsAddressRun(email, dot + 1, Len(email))
        /\ Len(email) - dot >= 2

\* what a field holds as an address: nothing when absent or null
AddressIn(f) == IF f.st = "val" THEN trim(f.v) ELSE ""

\* neither accepted field of the request in progress holds a syntactically
\* valid address: both are absent, empty or malformed
NoValidEmail ==
    /\ pc # "idle"
    /\ ~isValidEmail(AddressIn(data.clientEmail))
    /\ ~isValidEmail(AddressIn(data.email))

\* C14: a request with no email, an empty email or a syntactically invalid
\* email in both accepted fields is answered 400, the rule engine is not
\* evaluated and no send is attempted.
C14_InvalidEmailIs400 ==
    NoValidEmail =>
        /\ pc = "done"
        /\ response = 400
        /\ analysis.status = "none"
        /\ clientSend = "none"
        /\ internalSend = "none"

(***************************************************************************)
(* C15  failed sends                                                        *)
(***************************************************************************)
\* the send was not delivered: the promise rejected, or it resolved with
\* { data: null, error }
SendFailed(send) == send \in {"error", "rejected"}
\* the send has been attempted
SendStarted(send) == send # "none"

\* C15: if either send of a request fails the request is answered 500,
\* never 200; a send that was attempted is not attempted again in the same
\* request; a send that succeeded stays succeeded.
C15_FailedSendIs500 ==
    [][/\ (SendFailed(clientSend') \/ SendFailed(internalSend'))
            => response' # 200
       /\ (SendStarted(clientSend) /\ clientSend' = "pending")
            => clientSend = "pending"
       /\ (SendStarted(internalSend) /\ internalSend' = "pending")
            => internalSend = "pending"
       /\ (clientSend = "ok" /\ pc' # "idle") => clientSend' = "ok"
       /\ (internalSend = "ok" /\ pc' # "idle") => internalSend' = "ok"]_vars

(***************************************************************************)
(* C16  weights of the system-age rule                                      *)
(***************************************************************************)
\* the Analysis of a request whose macModel is a string
AgeRuleApplies == Returned /\ data.macModel.st = "val"
\* the year extracted from macModel is at most 2015
IsOldYear == YearAtMost(extractYear(data.macModel.v), 2015)
\* the year extracted from macModel is 2016 or 2017
IsAgingYear == ~IsOldYear /\ YearAtMost(extractYear(data.macModel.v), 2017)
\* the Memory flags pushed by the system-age rule
AgeRuleMemoryNotes ==
    {i \in FlagsOfRule(1) : analysis.flags[i].category = "Memory"}
\* 1 when macModel is in the soldered family list, else 0
SolderedNotes == IF InSolderedFamily(data.macModel.v) THEN 1 ELSE 0

\* C16 as stated: for every record whose extracted model year is <= 2015
\* the system-age rule emits exactly one CRITICAL Hardware Age flag and
\* adds 4, plus one CRITICAL Memory flag and 2 more only for a soldered
\* family; for year 2016 or 2017 it emits one MODERATE Hardware Age flag
\* and adds 2.
C16_OneAgeFlagOfWeight4 ==
    AgeRuleApplies =>
        /\ IsOldYear =>
            /\ Cardinality(FlagsOf("CRITICAL", "Hardware Age")) = 1
            /\ Cardinality(AgeRuleMemoryNotes) = SolderedNotes
            /\ Cardinality(FlagsOfRule(1)) = 1 + SolderedNotes
            /\ RuleSystemAge(data).score = 4 + 2 * SolderedNotes
        /\ IsAgingYear =>
            /\ Cardinality(FlagsOf("MODERATE", "Hardware Age")) = 1
            /\ Cardinality(FlagsOfRule(1)) = 1
            /\ RuleSystemAge(data).score = 2

\* C16 as amended: with a non-empty cpuBrand, year <= 2015 gives three
\* CRITICAL Hardware Age flags and 4 + 2 + 2 points, plus one CRITICAL
\* Memory flag and 2 more only for a soldered family; year 2016 or 2017
\* gives one MODERATE Hardware Age flag and 2 points; without cpuBrand the
\* rule gives nothing.
C16_ThreeAgeFlagsOfWeight8 ==
    AgeRuleApplies =>
        IF TruthyStr(data.cpuBrand)
        THEN /\ IsOldYear =>
                /\ Cardinality(FlagsOf("CRITICAL", "Hardware Age")) = 3
                /\ FlagsOf("MODERATE", "Hardware Age") = {}
                /\ Cardinality(AgeRuleMemoryNotes) = SolderedNotes
                /\ \A i \in AgeRuleMemoryNotes :
                        analysis.flags[i].severity = "CRITICAL"
                /\ Cardinality(FlagsOfRule(1)) = 3 + SolderedNotes
                /\ RuleSystemAge(data).score = 8 + 2 * SolderedNotes
             /\ IsAgingYear =>
                /\ Cardinality(FlagsOf("MODERATE", "Hardware Age")) = 1
                /\ Cardinality(FlagsOfRule(1)) = 1
                /\ RuleSystemAge(data).score = 2
        ELSE /\ FlagsOfRule(1) = {}
             /\ RuleSystemAge(data).score = 0

\* an old model with memory slots: three Hardware Age flags, no note
C16_Witness ==
    /\ AgeRuleApplies
    /\ TruthyStr(data.cpuBrand)
    /\ IsOldYear
    /\ SolderedNotes = 0
    /\ Cardinality(FlagsOf("CRITICAL", "Hardware Age")) = 3
    /\ AgeRuleMemoryNotes = {}

(***************************************************************************)
(* C17  battery rule                                                        *)
(***************************************************************************)
\* the Analysis of a request with both battery fields present
BatteryMeasured ==
    /\ Returned
    /\ data.batteryCapacity.st = "val"
    /\ data.batteryCycles.st = "val"

\* the battery rule pushed exactly one flag, of this severity and value 249
OneBatteryFlag(sev) ==
    /\ Cardinality(FlagsOfRule(2)) = 1
    /\ \A i \in FlagsOfRule(2) :
        /\ analysis.flags[i].severity = sev
        /\ analysis.flags[i].category = "Battery"
        /\ analysis.flags[i].value = 249

\* C17: with batteryCapacity and batteryCycles both present, the battery
\* rule emits a CRITICAL Battery flag (weight 3, value 249) whenever
\* capacity < 70 or cycles > 1200, and otherwise a MODERATE Battery flag
\* (weight 2, value 249) whenever capacity < 85 or cycles > 800; either
\* wear signal alone suffices, whatever the value of the other.
C17_EitherWearSignalSuffices ==
    BatteryMeasured =>
        LET capacity == data.batteryCapacity.v
            cycles == data.batteryCycles.v
            critical == capacity < 70 \/ cycles > 1200
            moderate == ~critical /\ (capacity < 85 \/ cycles > 800)
        IN  /\ critical => OneBatteryFlag("CRITICAL") /\ RuleBattery(data).score = 3
            /\ moderate => OneBatteryFlag("MODERATE") /\ RuleBattery(data).score = 2

(***************************************************************************)
(* C18  backup rule, no backup                                              *)
(***************************************************************************)
\* the backup rule pushed exactly one flag: CRITICAL, Data Protection, 149,
\* and added 3 to priorityScore
NoBackupFlagged ==
    /\ Cardinality(FlagsOfRule(3)) = 1
    /\ \A i \in FlagsOfRule(3) :
        /\ analysis.flags[i].severity = "CRITICAL"
        /\ analysis.flags[i].category = "Data Protection"
        /\ analysis.flags[i].value = 149
    /\ RuleBackup(data).score = 3

\* C18 as stated: for every record whose lastBackupDate is "Never" or is
\* absent, a CRITICAL Data Protection flag with value 149 is emitted and 3
\* is added to priorityScore.
C18_NeverOrAbsentIsCritical ==
    (Returned /\ (data.lastBackupDate = Val("Never")
                    \/ data.lastBackupDate.st = "undefined"))
        => NoBackupFlagged

\* C18 as amended: "Never" gives the CRITICAL Data Protection flag with
\* value 149 and 3 points; an absent lastBackupDate gives no flag and no
\* points.
C18_NeverIsCriticalAbsentIsSilent ==
    Returned =>
        /\ data.lastBackupDate = Val("Never") => NoBackupFlagged
        /\ data.lastBackupDate.st = "undefined" =>
            /\ FlagsOfRule(3) = {}
            /\ FlagsOf("CRITICAL", "Data Protection") = {}
            /\ RuleBackup(data).score = 0

C18_Witness ==
    /\ Returned
    /\ data.lastBackupDate = Val("Never")
    /\ \E i \in FlagsOf("CRITICAL", "Data Protection") :
            analysis.flags[i].value = 149
    /\ analysis.priorityScore >= 3

(***************************************************************************)
(* C19  RAM capacity rule on soldered systems                               *)
(***************************************************************************)
\* the Analysis of a record whose macModel is in the soldered family list
\* or whose extracted year is <= 2015
SolderedSystem ==
    /\ Returned
    /\ data.macModel.st = "val"
    /\ isSoldered(data.macModel.v)

HasExternalMonitor ==
    /\ Returned
    /\ data.externalMonitors.st = "val"
    /\ data.externalMonitors.v > 0

\* C20: for every record with externalMonitors > 0 the flag list contains
\* exactly one POSITIVE flag of category Display, and an external monitor
\* alone raises positiveCount by exactly 1.
C20_OneDisplayFlag ==
    HasExternalMonitor =>
        /\ Cardinality(FlagsOf("POSITIVE", "Display")) = 1
        /\ PresentScanFields = {"externalMonitors"} => analysis.positiveCount = 1

(***************************************************************************)
(* C21  positive affirmations                                               *)
(***************************************************************************)
\* the rule at position r of Blocks pushed a POSITIVE flag of category cat
Affirmed(r, cat) ==
    \E i \in FlagsOfRule(r) :
        analysis.flags[i].severity = "POSITIVE" /\ analysis.flags[i].category = cat

\* C21: for every record, each of the five conditions that holds
\* (externalMonitors > 0; totalRAM >= 32; cpuBrand contains an Apple
\* Silicon token; backup age <= 7 days; batteryCapacity >= 90 and
\* batteryCycles < 500, batteryCycles = 0 included) produces a POSITIVE
\* flag, whatever other rules fire on the same record.
C21_AffirmationsNeverSuppressed ==
    Returned =>
        /\ (data.externalMonitors.st = "val" /\ data.externalMonitors.v > 0)
            => Affirmed(16, "Display")
        /\ (data.totalRAM.st = "val" /\ data.totalRAM.v >= 32)
            => Affirmed(17, "Memory")
        /\ (data.cpuBrand.st = "val"
                /\ \E t \in {"M1", "M2", "M3", "M4"} : includes(data.cpuBrand.v, t))
            => Affirmed(18, "Hardware Age")
        /\ (ParseableBackup /\ AgeDays(data.lastBackupDate.v) <= 7)
            => Affirmed(19, "Data Protection")
        /\ (/\ data.batteryCapacity.st = "val" /\ data.batteryCapacity.v >= 90
            /\ data.batteryCycles.st = "val" /\ data.batteryCycles.v < 500)
            => Affirmed(20, "Battery")

(***************************************************************************)
(* C22  flag order and top-issue selection                                  *)
(***************************************************************************)
\* position of the first flag of severity sev in the list, 0 when none
FirstOfSeverity(sev) ==
    IF FlagsOfSeverity(sev) = {} THEN 0 ELSE Min(FlagsOfSeverity(sev))

\* C22: flags appear in rule-declaration order (a flag of rule i precedes
\* any flag of rule j > i), and the call-script hook of the internal
\* briefing is built from the first CRITICAL flag of the list if there is
\* one, otherwise from the first MODERATE flag, otherwise it is the default
\* text: list position decides, never weight.
C22_FirstInListWins ==
    Returned =>
        /\ \A i, j \in 1..Len(analysis.flags) :
                i < j => analysis.flags[i].rule <= analysis.flags[j].rule
        /\ callScriptHook(analysis) =
              IF FirstOfSeverity("CRITICAL") > 0
              THEN HookFrom("I noticed",
                            <<analysis.flags[FirstOfSeverity("CRITICAL")]>>)
              ELSE IF FirstOfSeverity("MODERATE") > 0
              THEN HookFrom("I saw",
                            <<analysis.flags[FirstOfSeverity("MODERATE")]>>)
              ELSE HookFrom("Your scan results look great overall", <<>>)

\* the first CRITICAL flag is unpriced and a later CRITICAL flag is priced:
\* the hook is still built from the first
C22_Witness ==
    /\ Returned
    /\ \E i, j \in FlagsOfSeverity("CRITICAL") :
        /\ i = FirstOfSeverity("CRITICAL")
        /\ i < j
        /\ analysis.flags[i].value < analysis.flags[j].value
        /\ analysis.flags[i].rule < analysis.flags[j].rule
        /\ callScriptHook(analysis).topFlag = <<analysis.flags[i]>>

(***************************************************************************)
(* C23  extractYear                                                         *)
(***************************************************************************)
\* the table entries whose token the string contains
TokensIn(str) ==
    {k \in 1..Len(ModelYearTable) : includes(str, ModelYearTable[k][1])}

\* the year written as 20dd at position i of the string
YearWrittenAt(str, i) ==
    2000 + 10 * DigitVal(CharAt(str, i + 2)) + DigitVal(CharAt(str, i + 3))

\* C23: extractYear is total and first-match: a string with a substring 20dd
\* gives that year (the first such substring); otherwise a string
\* containing a token of the table gives exactly the year listed for that
\* token (the first token of the table it contains), no token being
\* shadowed by a token that is a substring of it; any other string, the
\* empty one included, gives unknown (null) without throwing.
C23_ExtractYearFirstMatch ==
    (pc # "idle" /\ data.macModel.st = "val") =>
        LET str == data.macModel.v
            year == extractYear(str)
        IN  /\ analysis.status # "threw"
            /\ YearMatches(str) # {} =>
                    year = Year(YearWrittenAt(str, Min(YearMatches(str))))
            /\ (YearMatches(str) = {} /\ TokensIn(str) # {}) =>
                    /\ year = Year(ModelYearTable[Min(TokensIn(str))][2])
                    /\ \A k \in TokensIn(str) :
                          includes(ModelYearTable[k][1],
                                   ModelYearTable[Min(TokensIn(str))][1])
                            => k = Min(TokensIn(str))
            /\ (YearMatches(str) = {} /\ TokensIn(str) = {}) => year = NullYear
            /\ \A k \in 1..Len(ModelYearTable) :
                    str \in {ModelYearTable[k][1], ModelYearTable[k][1] \o ",1",
                             ModelYearTable[k][1] \o "1,1"}
                        => year = Year(ModelYearTable[k][2])
            /\ (analysis.status = "returned" /\ TruthyStr(data.cpuBrand)) =>
                    /\ (FlagsOf("CRITICAL", "Hardware Age") # {})
                          <=> (~year.isNull /\ year.val <= 2015)
                    /\ (FlagsOf("MODERATE", "Hardware Age") # {})
                          <=> (~year.isNull /\ year.val \in {2016, 2017})

\* a two-digit generation followed by a digit and a written year: the
\* written year wins over the table
C23_Witness ==
    /\ pc # "idle"
    /\ data.macModel = Val("MacBookPro11 (Late 2013)")
    /\ extractYear(data.macModel.v) = Year(2013)
    /\ analysis.status = "returned"
    /\ Cardinality(FlagsOf("CRITICAL", "Hardware Age")) = 3

(***************************************************************************)
(* C24  null fields                                                         *)
(***************************************************************************)
\* the record of the request in progress with field f omitted
WithoutField(f) == [data EXCEPT ![f] = Undef(data[f].v)]

\* C24: for every field f and every record, a JSON null in place of an
\* omitted f yields an Analysis with the same flags, priorityScore,
\* totalOpportunity and tiers as the record with f omitted.
C24_NullIsLikeOmitted ==
    Evaluated =>
        \A f \in ScanFields :
            data[f].st = "null" => analysis = analyzeScanResults(WithoutField(f))

(***************************************************************************)
(* C25  order of the steps of a request                                     *)
(***************************************************************************)
\* the send has returned to the handler (its promise resolved)
SendReturned(send) == send \in SendResolutions

\* C25: the steps of a request happen in the order validate, evaluate,
\* render, send to the client, send to the operator, respond: the operator
\* send is attempted only after the client send has returned successfully,
\* a 200 is produced only after both sends have returned, and if the client
\* send fails the operator send is never attempted.
C25_StepsInOrder ==
    /\ analysis.status # "none" =>
            TruthyStr(data.clientEmail) \/ TruthyStr(data.email)
    /\ SendStarted(clientSend) => analysis.status = "returned" /\ grade # ""
    /\ SendStarted(internalSend) => clientSend = "ok"
    /\ response = 200 => SendReturned(clientSend) /\ SendReturned(internalSend)
    /\ SendFailed(clientSend) => ~SendStarted(internalSend)

(***************************************************************************)
(* C26  exception in the analysis or the rendering                          *)
(***************************************************************************)
\* C26: if rule evaluation or report rendering raises an exception for a
\* request with a valid email, the endpoint responds 500, exactly once (the
\* response, once sent, is not followed by another), and neither the
\* client email nor the operator email is sent for that request.
C26_ExceptionIs500 ==
    [][/\ analysis'.status = "threw" =>
            /\ response' = 500
            /\ pc' = "done"
            /\ clientSend' = "none"
            /\ internalSend' = "none"
       /\ response # 0 => (pc' = "idle" /\ response' = 0)]_vars

C26_Witness ==
    /\ analysis.status = "threw"
    /\ isValidEmail(AddressIn(data.clientEmail))
    /\ data.totalRAM = Val(8)
    /\ data.macModel.st = "undefined"
    /\ response = 500
    /\ clientSend = "none"
    /\ internalSend = "none"

(***************************************************************************)
(* C27  an old system is always a hot lead                                  *)
(***************************************************************************)
\* C27: every record with a macModel whose extracted year is <= 2015 and a
\* non-empty cpuBrand is classified priorityLevel HOT and systemHealth
\* CRITICAL, with priorityScore >= 8 and criticalCount >= 3, whatever the
\* other fields, whenever evaluation returns.
C27_OldSystemIsHot ==
    (AgeRuleApplies /\ IsOldYear /\ TruthyStr(data.cpuBrand)) =>
        /\ analysis.priorityLevel = "HOT"
        /\ analysis.systemHealth = "CRITICAL"
        /\ analysis.priorityScore >= 8
        /\ analysis.criticalCount >= 3

\* the least such record: the three age flags and nothing else
C27_Witness ==
    /\ AgeRuleApplies /\ IsOldYear /\ TruthyStr(data.cpuBrand)
    /\ analysis.priorityScore = 8
    /\ analysis.criticalCount = 3
    /\ analysis.flagCount = 3
    /\ analysis.priorityLevel = "HOT"

(***************************************************************************)
(* C28  the two tiers are coupled                                           *)
(***************************************************************************)
\* C28: in every Analysis priorityLevel is HOT if and only if systemHealth
\* is CRITICAL, WARM if and only if systemHealth is NEEDS_ATTENTION or
\* MODERATE, and COLD if and only if systemHealth is GOOD or EXCELLENT.
C28_TiersCoupled ==
    analysis.status = "returned" =>
        /\ analysis.priorityLevel \in {"HOT", "WARM", "COLD"}
        /\ (analysis.priorityLevel = "HOT") <=> (analysis.systemHealth = "CRITICAL")
        /\ (analysis.priorityLevel = "WARM")
                <=> (analysis.systemHealth \in {"NEEDS_ATTENTION", "MODERATE"})
        /\ (analysis.priorityLevel = "COLD")
                <=> (analysis.systemHealth \in {"GOOD", "EXCELLENT"})

\* two CRITICAL flags under the score of the HOT rung: WARM and
\* NEEDS_ATTENTION
C28_Witness ==
    /\ analysis.status = "returned"
    /\ analysis.criticalCount = 2
    /\ analysis.priorityScore = 7
    /\ analysis.priorityLevel = "WARM"
    /\ analysis.systemHealth = "NEEDS_ATTENTION"

(***************************************************************************)
(* C29  grade and priority tier agree                                       *)
(***************************************************************************)
\* C29: a grade of D- or D+ implies priorityLevel HOT, and a grade of A+,
\* A, B or B+ implies priorityLevel COLD and criticalCount = 0.
C29_GradeAgreesWithTier ==
    analysis.status = "returned" =>
        /\ grade \in {"D-", "D+"} => analysis.priorityLevel = "HOT"
        /\ grade \in {"A+", "A", "B", "B+"} =>
                analysis.priorityLevel = "COLD" /\ analysis.criticalCount = 0

\* the lowest D+: three CRITICAL flags with a score under 10
C29_Witness ==
    /\ analysis.status = "returned"
    /\ grade = "D+"
    /\ analysis.criticalCount = 3
    /\ analysis.priorityScore < 10
    /\ analysis.priorityLevel = "HOT"

(***************************************************************************)
(* C30  the score printed as N/10                                           *)
(***************************************************************************)
\* C30: the priorityScore that the internal briefing and the request log
\* print as "N/10" is an integer between 0 and 10 inclusive, for every
\* record.
C30_ScoreWithinTen ==
    Returned => analysis.priorityScore \in 0..10

====
